---------------------------- MODULE Spec2Model ----------------------------
(***************************************************************************)
(* Model of src/google_history.py: GoogleHistoryAnalyzer (the dwell-time   *)
(* derivation of process(), clip_time_spent(), simple_domain(), the        *)
(* aggregation of time_by_domain()) and the script entry point main().     *)
(*                                                                         *)
(* Representation.                                                         *)
(*  - A Python string is a sequence of one-character strings, so that      *)
(*    str.split, str.join, urlparse and string comparison are computed     *)
(*    character by character.                                              *)
(*  - None and NaN are the empty tuple << >>; a present value x is <<x>>.  *)
(*  - A timestamp is a whole number of seconds since the epoch: the        *)
(*    modelled inputs carry time_usec values that are multiples of 10^6,   *)
(*    so that every difference "in seconds" is an integer.                 *)
(*  - A float quotient x / n is the exact fraction [num |-> x, den |-> n]. *)
(***************************************************************************)
EXTENDS Integers, Sequences, FiniteSets, TLC

VARIABLES
    history_list, \* exports/history_list.json: the "Browser History" array
    df,           \* self.df: the record collection (a sequence of rows)
    pc,           \* "new" | "processed" | "failed" | "exited" | "idle"
    args,         \* keyword arguments of the last analysis call, or None
    out,          \* outcome of the last analysis call
    logged,       \* main(): logging.error has reported a caught exception
    host,         \* the argument of a direct call of simple_domain
    simplified    \* the value that call returned, or None before it

vars == <<history_list, df, pc, args, out, logged, host, simplified>>

-----------------------------------------------------------------------------
(* Bounds of the model *)

\* longest browsing history that is loaded
MaxRecords == 3

\* longest host name given to simple_domain on its own
MaxHostLen == 7

-----------------------------------------------------------------------------
(* Option values, strings *)

None == << >>
Some(x) == <<x>>
IsNone(o) == o = << >>
Get(o) == o[1]

\* the element of a one-element set
Only(S) == CHOOSE x \in S : TRUE

NaN == << >>
IsNaN(o) == o = << >>

\* the characters of the modelled strings, in code-point order
Ascii == <<"#", "+", "-", ".", "/",
           "0", "1", "2", "3", "4", "5", "6", "7", "8", "9",
           ":", "?", "@",
           "a", "b", "c", "d", "e", "f", "g", "h", "i", "j", "k", "l", "m",
           "n", "o", "p", "q", "r", "s", "t", "u", "v", "w", "x", "y", "z">>

\* ord(c), up to the order it gives
CodePoint ==
    [c \in {Ascii[i] : i \in 1..Len(Ascii)} |->
        CHOOSE i \in 1..Len(Ascii) : Ascii[i] = c]

Ord(c) == CodePoint[c]

\* a < b given that a and b agree before position k
RECURSIVE StrLessFrom(_, _, _)
StrLessFrom(a, b, k) ==
    IF k > Len(b) THEN FALSE
    ELSE IF k > Len(a) THEN TRUE
    ELSE IF a[k] = b[k] THEN StrLessFrom(a, b, k + 1)
    ELSE Ord(a[k]) < Ord(b[k])

\* Python's str < str: lexicographic on code points, a proper prefix is less
StrLess(a, b) == StrLessFrom(a, b, 1)

\* index of the first position >= from whose character is in cs, or Len(s)+1
RECURSIVE FindFirst(_, _, _)
FindFirst(s, cs, from) ==
    IF from > Len(s) THEN Len(s) + 1
    ELSE IF s[from] \in cs THEN from
    ELSE FindFirst(s, cs, from + 1)

\* str.split(sep) for a one-character separator
RECURSIVE Split(_, _)
Split(s, sep) ==
    LET i == FindFirst(s, {sep}, 1)
    IN  IF i > Len(s) THEN <<s>>
        ELSE <<SubSeq(s, 1, i - 1)>> \o Split(SubSeq(s, i + 1, Len(s)), sep)

\* sep.join(parts)
RECURSIVE Join(_, _)
Join(parts, sep) ==
    IF Len(parts) = 0 THEN << >>
    ELSE IF Len(parts) = 1 THEN parts[1]
    ELSE parts[1] \o <<sep>> \o Join(Tail(parts), sep)

-----------------------------------------------------------------------------
(* urllib.parse.urlparse(url).netloc *)

Letters == {Ascii[i] : i \in 19..44}
Digits  == {Ascii[i] : i \in 6..15}

\* urllib.parse.scheme_chars
SchemeChars == Letters \cup Digits \cup {"+", "-", "."}

\* the url with its "scheme:" prefix removed, when it has one
AfterScheme(url) ==
    LET i == FindFirst(url, {":"}, 1)
    IN  IF /\ i > 1
           /\ i <= Len(url)
           /\ \A j \in 1..(i - 1) : url[j] \in SchemeChars
           /\ url[1] \in Letters
        THEN SubSeq(url, i + 1, Len(url))
        ELSE url

\* what follows "//", up to the first of "/", "?", "#"
netloc(url) ==
    LET rest == AfterScheme(url)
    IN  IF Len(rest) >= 2 /\ rest[1] = "/" /\ rest[2] = "/"
        THEN SubSeq(rest, 3, FindFirst(rest, {"/", "?", "#"}, 3) - 1)
        ELSE << >>

-----------------------------------------------------------------------------
(* GoogleHistoryAnalyzer.simple_domain *)

\* a faulty variant: keeps the last two labels only
simple_domain_last_two(domain_full) ==
    LET parts == Split(domain_full, ".")
    IN  IF Len(parts) <= 2 THEN domain_full
        ELSE Join(SubSeq(parts, Len(parts) - 1, Len(parts)), ".")

simple_domain(domain_full) ==
    LET parts == Split(domain_full, ".")
    IN  IF Len(parts) = 1 THEN domain_full
        ELSE IF Len(parts) = 2 THEN Join(parts, ".")
        ELSE Join(Tail(parts), ".")

-----------------------------------------------------------------------------
(* pd.to_datetime(..., unit="us") and pd.DatetimeIndex(...).month / .year *)

SecondsPerDay == 86400

\* the civil (proleptic Gregorian) date of a day number counted from
\* 1970-01-01, as <<year, month>>
CivilFromDays(days) ==
    LET z   == days + 719468
        era == z \div 146097
        doe == z - era * 146097
        yoe == (doe - doe \div 1460 + doe \div 36524 - doe \div 146096) \div 365
        doy == doe - (365 * yoe + yoe \div 4 - yoe \div 100)
        mp  == (5 * doy + 2) \div 153
        m   == IF mp < 10 THEN mp + 3 ELSE mp - 9
        y   == yoe + era * 400 + (IF m <= 2 THEN 1 ELSE 0)
    IN  <<y, m>>

to_datetime(time_usec) == time_usec

YearOf(timestamp) == CivilFromDays(timestamp \div SecondsPerDay)[1]
MonthOf(timestamp) == CivilFromDays(timestamp \div SecondsPerDay)[2]

-----------------------------------------------------------------------------
(* The clipping policy: class attributes of GoogleHistoryAnalyzer *)

default_domain_clip_time_spent == 600

S_meet    == <<"m","e","e","t",".","g","o","o","g","l","e",".","c","o","m">>
S_youtube == <<"y","o","u","t","u","b","e",".","c","o","m">>
S_netflix == <<"n","e","t","f","l","i","x",".","c","o","m">>
S_hulu    == <<"h","u","l","u",".","c","o","m">>

\* the dict, as its items() in insertion order
custom_domain_clip_time_spent ==
    << <<S_meet, 10800>>, <<S_youtube, 3600>>,
       <<S_netflix, 10800>>, <<S_hulu, 10800>> >>

CustomDomains ==
    {custom_domain_clip_time_spent[k][1] :
        k \in 1..Len(custom_domain_clip_time_spent)}

Min(a, b) == IF a <= b THEN a ELSE b

\* Series.clip(upper=ub): NaN stays NaN, there is no lower bound
ClipUpper(x, ub) == IF IsNaN(x) THEN x ELSE Some(Min(Get(x), ub))

\* the first k iterations of the loop over the custom domains
RECURSIVE ClipCustom(_, _)
ClipCustom(rows, k) ==
    IF k = 0 THEN rows
    ELSE LET prev   == ClipCustom(rows, k - 1)
             domain == custom_domain_clip_time_spent[k][1]
             upper  == custom_domain_clip_time_spent[k][2]
         IN  [i \in 1..Len(prev) |->
                IF prev[i].domain = domain
                THEN [prev[i] EXCEPT !.time_spent_s = ClipUpper(@, upper)]
                ELSE prev[i]]

\* a faulty variant: one global bound for every domain
clip_time_spent_global(rows) ==
    [i \in 1..Len(rows) |->
        [rows[i] EXCEPT !.time_spent_s =
            ClipUpper(@, default_domain_clip_time_spent)]]

clip_time_spent(rows) ==
    LET custom == ClipCustom(rows, Len(custom_domain_clip_time_spent))
    IN  [i \in 1..Len(custom) |->
            IF custom[i].domain \notin CustomDomains
            THEN [custom[i] EXCEPT !.time_spent_s =
                    ClipUpper(@, default_domain_clip_time_spent)]
            ELSE custom[i]]

-----------------------------------------------------------------------------
(* pd.cut(self.df.time_spent_s, second_bins) *)

\* np.inf: above every value a 32-bit second count can take
Inf == 2147483647

second_bins == <<0, 1, 5, 10, 30, 60, 240, 600, 1800, 3600, Inf>>

\* the interval (lo, hi] that holds x, as Some(<<lo, hi>>); NaN when x is
\* NaN or lies in no interval (right=True, include_lowest=False)
cut(x, bins) ==
    IF IsNaN(x) THEN NaN
    ELSE IF \E k \in 1..(Len(bins) - 1) : bins[k] < Get(x) /\ Get(x) <= bins[k + 1]
    THEN LET k == CHOOSE k \in 1..(Len(bins) - 1) :
                      bins[k] < Get(x) /\ Get(x) <= bins[k + 1]
         IN  Some(<<bins[k], bins[k + 1]>>)
    ELSE NaN

-----------------------------------------------------------------------------
(* GoogleHistoryAnalyzer.process *)

S_newtab == <<"n","e","w","t","a","b">>

\* x / n on a possibly-NaN number or fraction
Over(x, n) ==
    IF IsNaN(x) THEN NaN
    ELSE Some([num |-> Get(x).num, den |-> Get(x).den * n])

AsFraction(x) == IF IsNaN(x) THEN NaN ELSE Some([num |-> Get(x), den |-> 1])

\* lines 74-78: the timestamp, domain_full and domain columns
WithDomains(rows) ==
    [i \in 1..Len(rows) |->
        [time_usec   |-> rows[i].time_usec,
         url         |-> rows[i].url,
         timestamp   |-> to_datetime(rows[i].time_usec),
         domain_full |-> netloc(rows[i].url),
         domain      |-> simple_domain(netloc(rows[i].url))]]

\* a faulty variant: keeps every row
DropNewtab_keep_all(rows) == rows

\* line 82: self.df[self.df.domain != "newtab"]
DropNewtab(rows) == SelectSeq(rows, LAMBDA r : r.domain # S_newtab)

\* a faulty variant: the row difference without the negation
time_diff_forward(rows, i) ==
    IF i = 1 THEN NaN
    ELSE Some(rows[i].timestamp - rows[i - 1].timestamp)

\* line 93: -(self.df.timestamp.diff() / np.timedelta64(1, "s")) at row i
time_diff(rows, i) ==
    IF i = 1 THEN NaN
    ELSE Some(-(rows[i].timestamp - rows[i - 1].timestamp))

\* lines 85-93: month, year and the raw time_spent_s
WithTimeSpent(rows) ==
    [i \in 1..Len(rows) |->
        [time_usec    |-> rows[i].time_usec,
         url          |-> rows[i].url,
         timestamp    |-> rows[i].timestamp,
         domain_full  |-> rows[i].domain_full,
         domain       |-> rows[i].domain,
         month        |-> MonthOf(rows[i].timestamp),
         year         |-> YearOf(rows[i].timestamp),
         time_spent_s |-> time_diff(rows, i)]]

\* line 105
bin_of(x) == cut(x, second_bins)

\* lines 99-105: the derived units and the bins
WithDerived(rows) ==
    [i \in 1..Len(rows) |->
        LET s == rows[i].time_spent_s
            m == Over(AsFraction(s), 60)
            h == Over(m, 60)
            d == Over(h, 24)
        IN  [time_usec       |-> rows[i].time_usec,
             url             |-> rows[i].url,
             timestamp       |-> rows[i].timestamp,
             domain_full     |-> rows[i].domain_full,
             domain          |-> rows[i].domain,
             month           |-> rows[i].month,
             year            |-> rows[i].year,
             time_spent_s    |-> s,
             time_spent_m    |-> m,
             time_spent_h    |-> h,
             time_spent_d    |-> d,
             time_spent_bins |-> bin_of(s)]]

\* process() on the loaded rows: [ok, df].  It raises on an empty history
\* (line 74: no time_usec column) and when no row is left after the newtab
\* rows are dropped (line 89: iloc[0]); self.df is then what line 82 left.
process_result(rows) ==
    LET kept == DropNewtab(WithDomains(rows))
    IN  IF Len(rows) = 0 THEN [ok |-> FALSE, df |-> rows]
        ELSE IF Len(kept) = 0 THEN [ok |-> FALSE, df |-> kept]
        ELSE [ok |-> TRUE,
              df |-> WithDerived(clip_time_spent(WithTimeSpent(kept)))]

-----------------------------------------------------------------------------
(* GoogleHistoryAnalyzer.date_filter_df *)

\* a faulty variant: bounds that exclude the bound itself
date_filter_df_exclusive(rows, date_start, date_end) ==
    SelectSeq(rows, LAMBDA r :
        /\ IsNone(date_start) \/ r.timestamp > Get(date_start)
        /\ IsNone(date_end) \/ r.timestamp < Get(date_end))

date_filter_df(rows, date_start, date_end) ==
    LET lower == IF IsNone(date_start) THEN rows
                 ELSE SelectSeq(rows, LAMBDA r : r.timestamp >= Get(date_start))
    IN  IF IsNone(date_end) THEN lower
        ELSE SelectSeq(lower, LAMBDA r : r.timestamp <= Get(date_end))

-----------------------------------------------------------------------------
(* GoogleHistoryAnalyzer.time_by_domain *)

RECURSIVE SeqSum(_)
SeqSum(xs) == IF Len(xs) = 0 THEN 0 ELSE Head(xs) + SeqSum(Tail(xs))

\* lines 190-196: the domains and subdomains filters
isin_filters(rows, a) ==
    LET by_domain == IF IsNone(a.domains) THEN rows
                     ELSE SelectSeq(rows, LAMBDA r : r.domain \in Get(a.domains))
    IN  IF IsNone(a.subdomains) THEN by_domain
        ELSE SelectSeq(by_domain, LAMBDA r : r.domain_full \in Get(a.subdomains))

\* a faulty variant: any other value groups by subdomain
groupby_col_known_any(groupby) == TRUE

\* line 199: the dict lookup, defined on its two keys only
groupby_col_known(groupby) == groupby \in {"domain", "subdomain"}

\* lines 199-204: the group key of a row, (month, year, name) or (name)
group_key(r, a) ==
    LET name == IF a.groupby = "domain" THEN r.domain ELSE r.domain_full
    IN  IF a.include_month THEN <<r.month, r.year, name>> ELSE <<name>>

\* the order in which groupby (sort=True) leaves the group keys
KeyLess(k1, k2) ==
    IF Len(k1) = 1 THEN StrLess(k1[1], k2[1])
    ELSE \/ k1[1] < k2[1]
         \/ k1[1] = k2[1] /\ k1[2] < k2[2]
         \/ k1[1] = k2[1] /\ k1[2] = k2[2] /\ StrLess(k1[3], k2[3])

\* a faulty variant: a NaN time_spent_s counts as one second
seconds_of_nan_as_one(r) == IF IsNaN(r.time_spent_s) THEN 1 ELSE Get(r.time_spent_s)

\* what a row adds to a sum: sum() skips NaN
seconds_of(r) == IF IsNaN(r.time_spent_s) THEN 0 ELSE Get(r.time_spent_s)

\* the keys of a set, as the sequence ordered by KeyLess
RECURSIVE sorted_keys(_)
sorted_keys(keys) ==
    IF keys = {} THEN << >>
    ELSE LET least == CHOOSE k \in keys : \A k2 \in keys \ {k} : KeyLess(k, k2)
         IN  <<least>> \o sorted_keys(keys \ {least})

\* the row of one group: its key and the sums over its members
group_row(key, members) ==
    Only({ [key          |-> key,
            time_spent_s |-> total,
            time_spent_m |-> [num |-> total, den |-> 60],
            time_spent_h |-> [num |-> total, den |-> 3600],
            time_spent_d |-> [num |-> total, den |-> 86400]] :
           total \in {SeqSum([i \in 1..Len(members) |-> seconds_of(members[i])])} })

\* lines 205-208: one row per group key, in key order, with the sums
grouped(rows, a) ==
    Only({ [n \in 1..Len(ks) |->
              Only({ group_row(ks[n], members) :
                     members \in {SelectSeq(rs, LAMBDA r : group_key(r, a) = ks[n])} })] :
           rs \in {rows},
           ks \in {sorted_keys({group_key(rows[i], a) : i \in 1..Len(rows)})} })

\* a faulty variant: month before year
sorts_before_month_first(g1, g2, include_month) ==
    IF include_month
    THEN \/ g1.key[1] < g2.key[1]
         \/ g1.key[1] = g2.key[1] /\ g1.key[2] < g2.key[2]
         \/ /\ g1.key[1] = g2.key[1] /\ g1.key[2] = g2.key[2]
            /\ g1.time_spent_s > g2.time_spent_s
    ELSE g1.time_spent_s > g2.time_spent_s

\* lines 211-214: g1 is strictly before g2 in the sort order
\* (year, month ascending and seconds descending, or seconds descending)
sorts_before(g1, g2, include_month) ==
    IF include_month
    THEN \/ g1.key[2] < g2.key[2]
         \/ g1.key[2] = g2.key[2] /\ g1.key[1] < g2.key[1]
         \/ /\ g1.key[2] = g2.key[2] /\ g1.key[1] = g2.key[1]
            /\ g1.time_spent_s > g2.time_spent_s
    ELSE g1.time_spent_s > g2.time_spent_s

\* the index of the row that comes first in the sort order, the earliest
\* one among rows that compare equal
first_row(gs, include_month) ==
    CHOOSE i \in 1..Len(gs) :
        /\ \A j \in 1..Len(gs) : ~sorts_before(gs[j], gs[i], include_month)
        /\ \A j \in 1..(i - 1) : sorts_before(gs[j], gs[i], include_month)
                                 \/ sorts_before(gs[i], gs[j], include_month)

\* sort_values: rows that compare equal keep the order they had
RECURSIVE sort_values(_, _)
sort_values(gs, include_month) ==
    IF Len(gs) = 0 THEN gs
    ELSE Only({ <<g[i]>> \o
                sort_values(SubSeq(g, 1, i - 1) \o SubSeq(g, i + 1, Len(g)),
                            include_month) :
                g \in {gs}, i \in {first_row(gs, include_month)} })

\* GoogleHistoryAnalyzer.export_df: the file or the console gets the rows
export_df(rows, export_format) ==
    [kind |-> "exported", format |-> export_format, rows |-> rows]

\* the outcome of time_by_domain(**a) on the rows of self.df
time_by_domain(rows, a) ==
    IF ~groupby_col_known(a.groupby)
    THEN [kind |-> "raised", format |-> None, rows |-> << >>]
    ELSE Only({ IF IsNone(a.export)
                THEN [kind |-> "returned", format |-> None, rows |-> result]
                ELSE export_df(result, Get(a.export)) :
                result \in
                  { sort_values(grouped(filtered, a), a.include_month) :
                    filtered \in
                      {isin_filters(date_filter_df(rows, a.date_start, a.date_end), a)} } })

-----------------------------------------------------------------------------
(* The inputs the model draws from *)

U_hulu   == <<"h","t","t","p",":","/","/","h","u","l","u",".","c","o","m","/">>
U_m_hulu == <<"h","t","t","p",":","/","/","m",".","h","u","l","u",".","c","o","m","/">>
U_w_x    == <<"h","t","t","p",":","/","/","w",".","x",".","o","r","g","/","a">>
U_newtab == <<"c","h","r","o","m","e",":","/","/","n","e","w","t","a","b","/">>

\* the pages that are visited
Urls == {U_hulu, U_m_hulu, U_w_x}

S_m_hulu == <<"m",".","h","u","l","u",".","c","o","m">>
S_w_x    == <<"w",".","x",".","o","r","g">>
S_x      == <<"x",".","o","r","g">>

\* 1970-02-01 00:00:00, five seconds later, and 1971-01-01 00:00:00
T_feb == 31 * SecondsPerDay
T_jan == 365 * SecondsPerDay
Times == {T_feb, T_feb + 5, T_jan}

\* the rows of the "Browser History" array, as __init__ loads them: a visit
\* of a page at one of the times, or a new tab
RawRows ==
    [time_usec : Times, url : Urls] \cup [time_usec : {T_feb}, url : {U_newtab}]

Histories == UNION {[1..n -> RawRows] : n \in 0..MaxRecords}

GroupBys == {"domain", "subdomain", "url"}

\* the defaults of time_by_domain's keywords
DefaultKwargs ==
    [domains       |-> None,
     subdomains    |-> None,
     groupby       |-> "domain",
     include_month |-> FALSE,
     date_start    |-> None,
     date_end      |-> None,
     export        |-> None]

\* a value other than the default for each keyword
OtherKwargs ==
    [domains       |-> Some({S_hulu}),
     subdomains    |-> Some({S_m_hulu, S_w_x}),
     groupby       |-> "subdomain",
     include_month |-> TRUE,
     date_start    |-> Some(T_feb + 5),
     date_end      |-> Some(T_feb + 5),
     export        |-> Some("csv")]

\* the calls that are made: the defaults, each filter and each grouping
\* keyword set on its own, every keyword set together, and a groupby that
\* is no column
Kwargs ==
    {DefaultKwargs, OtherKwargs, [DefaultKwargs EXCEPT !.groupby = "url"]}
    \cup {[DefaultKwargs EXCEPT ![k] = OtherKwargs[k]] :
            k \in DOMAIN DefaultKwargs \ {"export"}}

\* what the command line of the script passes on when only --groupby is
\* given: every other keyword at its default, the export to the console
MainKwargs ==
    {[DefaultKwargs EXCEPT !.groupby = g, !.export = Some("console")] :
        g \in GroupBys}

Analyses == {"time_by_domain", "time_by_random_domain", "time_by_url"}

NoOutcome == [kind |-> "none", format |-> None, rows |-> << >>]
Raised    == [kind |-> "raised", format |-> None, rows |-> << >>]

-----------------------------------------------------------------------------
(* The state machine *)

\* after GoogleHistoryAnalyzer.__init__: the array is written to
\* exports/history_list.json and read back into self.df
Init ==
    /\ history_list \in Histories
    /\ df = history_list
    /\ pc = "new"
    /\ args = None
    /\ out = NoOutcome
    /\ logged = FALSE
    /\ host = << >>
    /\ simplified = None

\* client.process()
Process ==
    /\ pc = "new"
    /\ LET p == process_result(df)
       IN  /\ df' = p.df
           /\ pc' = IF p.ok THEN "processed" ELSE "failed"
    /\ UNCHANGED <<history_list, args, out, logged, host, simplified>>

\* a faulty variant: the filtered frame is stored back into self.df
df_after_call_stores_filtered(rows, a) ==
    isin_filters(date_filter_df(rows, a.date_start, a.date_end), a)

\* self.df after time_by_domain(**a): the method works on copies
df_after_call(rows, a) == rows

\* client.time_by_domain(**a)
TimeByDomain ==
    /\ pc = "processed"
    /\ \E a \in Kwargs :
         /\ args' = Some(a)
         /\ out' = time_by_domain(df, a)
         /\ df' = df_after_call(df, a)
    /\ UNCHANGED <<history_list, pc, logged, host, simplified>>

\* the keyword arguments time_by_random_domain passes on
random_domain_kwargs(random_domain, export) ==
    [domains       |-> Some({random_domain}),
     subdomains    |-> None,
     groupby       |-> "subdomain",
     include_month |-> TRUE,
     date_start    |-> None,
     date_end      |-> None,
     export        |-> export]

\* client.time_by_random_domain(export=export)
TimeByRandomDomain ==
    /\ pc = "processed"
    /\ \E i \in 1..Len(df) :
         LET a == random_domain_kwargs(df[i].domain, None)
         IN  /\ args' = Some(a)
             /\ out' = time_by_domain(df, a)
             /\ df' = df_after_call(df, a)
    /\ UNCHANGED <<history_list, pc, logged, host, simplified>>

\* main(input_filepath, analysis, export, kwargs), from the constructed
\* client on: process, the analysis looked up by name, and the except clause
Main ==
    /\ pc = "new"
    /\ pc' = "exited"
    /\ UNCHANGED <<history_list, host, simplified>>
    /\ \E p \in {process_result(df)}, analysis \in Analyses, a \in MainKwargs :
         IF ~p.ok
         THEN /\ df' = p.df
              /\ args' = None
              /\ out' = Raised
              /\ logged' = TRUE
         ELSE IF analysis = "time_by_domain"
         THEN \E res \in {time_by_domain(p.df, a)} :
                /\ df' = df_after_call(p.df, a)
                /\ args' = Some(a)
                /\ out' = res
                /\ logged' = (res.kind = "raised")
         ELSE IF analysis = "time_by_random_domain"
         THEN \E i \in 1..Len(p.df) :
                \E r \in {random_domain_kwargs(p.df[i].domain, a.export)} :
                    /\ df' = df_after_call(p.df, r)
                    /\ args' = Some(r)
                    /\ out' = time_by_domain(p.df, r)
                    /\ logged' = FALSE
         ELSE /\ df' = p.df
              /\ args' = None
              /\ out' = Raised
              /\ logged' = TRUE

Next ==
    \/ Process
    \/ TimeByDomain
    \/ TimeByRandomDomain
    \/ Main

Spec == Init /\ [][Next]_vars

-----------------------------------------------------------------------------
(* simple_domain called on its own (it is a classmethod) *)

HostChars == {"a", "b", "."}

Hosts == UNION {[1..n -> HostChars] : n \in 0..MaxHostLen}

InitSimpleDomain ==
    /\ history_list = << >>
    /\ df = << >>
    /\ pc = "idle"
    /\ args = None
    /\ out = NoOutcome
    /\ logged = FALSE
    /\ host \in Hosts
    /\ simplified = None

\* GoogleHistoryAnalyzer.simple_domain(host)
SimpleDomain ==
    /\ pc = "idle"
    /\ IsNone(simplified)
    /\ simplified' = Some(simple_domain(host))
    /\ UNCHANGED <<history_list, df, pc, args, out, logged, host>>

NextSimpleDomain == SimpleDomain

SpecSimpleDomain == InitSimpleDomain /\ [][NextSimpleDomain]_vars

-----------------------------------------------------------------------------
(* Properties of process() *)

\* process() has run to its end on self.df
Processed == pc = "processed" \/ (pc = "exited" /\ df # << >>)

Ascending(rows) ==
    \A i \in 1..(Len(rows) - 1) : rows[i].time_usec <= rows[i + 1].time_usec

\* the upper bound in force for a normalized domain
BoundOf(domain) ==
    IF \E k \in 1..Len(custom_domain_clip_time_spent) :
           custom_domain_clip_time_spent[k][1] = domain
    THEN LET k == CHOOSE k \in 1..Len(custom_domain_clip_time_spent) :
                      custom_domain_clip_time_spent[k][1] = domain
         IN  custom_domain_clip_time_spent[k][2]
    ELSE 600

AllBounds == {600, 3600, 10800}

C2_ClippedAtDomainBound ==
    Processed =>
        \A i \in 2..Len(df) :
            LET d == df[i - 1].timestamp - df[i].timestamp
            IN  df[i].time_spent_s =
                    Some(IF d <= BoundOf(df[i].domain) THEN d
                         ELSE BoundOf(df[i].domain))

\* newest first: an override domain clipped at its own bound, which is
\* above the default, and a delta below the default bound left as it is
C2_Witness ==
    /\ pc = "processed"
    /\ Len(df) = 3
    /\ df[2].domain = S_hulu
    /\ df[1].timestamp - df[2].timestamp > 10800
    /\ df[2].time_spent_s = Some(10800)
    /\ df[3].domain = S_x
    /\ df[2].timestamp - df[3].timestamp = 5
    /\ df[3].time_spent_s = Some(5)

\* the rows of a frame, reduced to the two columns that were loaded
Loaded(rows) ==
    [i \in 1..Len(rows) |-> [time_usec |-> rows[i].time_usec, url |-> rows[i].url]]

\* C3: after process() no record of the working set has the domain
\* "newtab", and the working set is the loaded history without the records
\* whose normalized domain is "newtab", in the same order.
C3_NewtabDropped ==
    pc \in {"processed", "failed", "exited"} =>
        /\ \A i \in 1..Len(df) : df[i].domain # S_newtab
        /\ Loaded(df) =
              SelectSeq(history_list,
                        LAMBDA r : simple_domain(netloc(r.url)) # S_newtab)

\* a newtab record between two others was dropped
C3_Witness ==
    /\ pc = "processed"
    /\ Len(history_list) = 3
    /\ history_list[2].url = U_newtab
    /\ Len(df) = 2
    /\ df[1].url = history_list[1].url
    /\ df[2].url = history_list[3].url

\* C10: after process() every record whose time_spent_s is not null has the
\* bin (one interval between consecutive boundaries 0, 1, 5, 10, 30, 60,
\* 240, 600, 1800, 3600, +infinity) that contains its value, and a delta of
\* exactly 0 has one.  Stated for the values from 0 on, the values the
\* boundaries span.
C10_EveryDeltaBinned ==
    Processed =>
        \A i \in 1..Len(df) :
            (~IsNaN(df[i].time_spent_s) /\ Get(df[i].time_spent_s) >= 0) =>
                /\ ~IsNaN(df[i].time_spent_bins)
                /\ Get(df[i].time_spent_bins)[1] <= Get(df[i].time_spent_s)
                /\ Get(df[i].time_spent_s) <= Get(df[i].time_spent_bins)[2]

-----------------------------------------------------------------------------
(* Properties of time_by_domain *)

\* an analysis call has returned or exported rows
Answered == ~IsNone(args) /\ out.kind \in {"returned", "exported"}

\* the record passes every filter the call supplied
Passes(r, a) ==
    /\ IsNone(a.date_start) \/ r.timestamp >= Get(a.date_start)
    /\ IsNone(a.date_end) \/ r.timestamp <= Get(a.date_end)
    /\ IsNone(a.domains) \/ r.domain \in Get(a.domains)
    /\ IsNone(a.subdomains) \/ r.domain_full \in Get(a.subdomains)

\* the name a record is grouped under
NameOf(r, a) == IF a.groupby = "domain" THEN r.domain ELSE r.domain_full

\* C5: time_by_domain gives exactly one row per distinct group key among
\* the records that pass all supplied filters (both date bounds inclusive),
\* and no other row; when no record passes, the result is empty.
C5_OneRowPerKey ==
    Answered =>
        LET a        == Get(args)
            passing  == {i \in 1..Len(df) : Passes(df[i], a)}
            expected == {IF a.include_month
                         THEN <<df[i].month, df[i].year, NameOf(df[i], a)>>
                         ELSE <<NameOf(df[i], a)>> : i \in passing}
        IN  /\ {out.rows[n].key : n \in 1..Len(out.rows)} = expected
            /\ Len(out.rows) = Cardinality(expected)

\* date_start kept the record whose timestamp equals it and dropped an
\* earlier one
C5_Witness ==
    /\ Answered
    /\ ~IsNone(Get(args).date_start)
    /\ Len(df) = 3
    /\ df[1].timestamp = Get(Get(args).date_start)
    /\ df[2].timestamp < Get(Get(args).date_start)
    /\ df[3].timestamp < Get(Get(args).date_start)
    /\ Len(out.rows) = 1
    /\ out.rows[1].key = <<df[1].domain>>

Unfiltered(a) ==
    /\ IsNone(a.date_start) /\ IsNone(a.date_end)
    /\ IsNone(a.domains) /\ IsNone(a.subdomains)

\* C6: in an unfiltered aggregation without month breakdown the per-group
\* seconds add up to the sum of the clipped time_spent_s of all records, a
\* null counting as zero, and each group's seconds are the sum over the
\* records that carry its key.
C6_SumInvariant ==
    (Answered /\ Unfiltered(Get(args)) /\ ~Get(args).include_month) =>
        LET a == Get(args)
            secs(i) == IF df[i].time_spent_s = << >> THEN 0 ELSE df[i].time_spent_s[1]
        IN  /\ SeqSum([n \in 1..Len(out.rows) |-> out.rows[n].time_spent_s]) =
                  SeqSum([i \in 1..Len(df) |-> secs(i)])
            /\ \A n \in 1..Len(out.rows) :
                  out.rows[n].time_spent_s =
                      SeqSum([i \in 1..Len(df) |->
                                 IF NameOf(df[i], a) = out.rows[n].key[1]
                                 THEN secs(i) ELSE 0])

\* two groups; the first record, whose time_spent_s is null, adds nothing
\* to its group
C6_Witness ==
    /\ Answered
    /\ Get(args) = DefaultKwargs
    /\ Len(df) = 3
    /\ IsNaN(df[1].time_spent_s) /\ df[1].domain = S_x
    /\ df[2].time_spent_s = Some(10800) /\ df[2].domain = S_hulu
    /\ df[3].time_spent_s = Some(5) /\ df[3].domain = S_x
    /\ Len(out.rows) = 2
    /\ out.rows[1].key = <<S_hulu>> /\ out.rows[1].time_spent_s = 10800
    /\ out.rows[2].key = <<S_x>> /\ out.rows[2].time_spent_s = 5

\* C7: the rows are ordered; with include_month ascending by (year, month)
\* and, within one (year, month), descending by total seconds; without it
\* descending by total seconds.
C7_Ordered ==
    Answered =>
        \A n, m \in 1..Len(out.rows) :
            n < m =>
                LET g == out.rows[n]
                    h == out.rows[m]
                IN  IF Get(args).include_month
                    THEN \/ g.key[2] < h.key[2]
                         \/ g.key[2] = h.key[2] /\ g.key[1] < h.key[1]
                         \/ /\ g.key[2] = h.key[2] /\ g.key[1] = h.key[1]
                            /\ g.time_spent_s >= h.time_spent_s
                    ELSE g.time_spent_s >= h.time_spent_s

\* two groups of February 1970, the larger first, before one of January 1971
C7_Witness ==
    /\ Answered
    /\ Get(args).include_month
    /\ Len(out.rows) = 3
    /\ out.rows[1].key[1] = 2 /\ out.rows[1].key[2] = 1970
    /\ out.rows[2].key[1] = 2 /\ out.rows[2].key[2] = 1970
    /\ out.rows[1].time_spent_s > out.rows[2].time_spent_s
    /\ out.rows[3].key[1] = 1 /\ out.rows[3].key[2] = 1971

\* C8: a call of time_by_domain, whatever its arguments, leaves the
\* processed record collection as it was, and a call that repeats the
\* arguments of the call before it has the same outcome.
C8_CollectionUnchanged ==
    [][pc = "processed" =>
          /\ df' = df
          /\ (args' = args => out' = out)]_vars

\* after a call that filtered by domain, the collection still holds a
\* record of another domain
C8_Witness ==
    /\ pc = "processed"
    /\ Answered
    /\ Get(args).domains = Some({S_hulu})
    /\ Len(out.rows) = 1
    /\ \E i \in 1..Len(df) : df[i].domain = S_x

\* C9: a call whose group_by is neither "domain" nor "subdomain" ends in an
\* error, with no rows returned or exported and the record collection
\* unchanged; through main the error is logged and main returns.
C9_UnknownGroupBy ==
    [][(~IsNone(args') /\ Get(args').groupby \notin {"domain", "subdomain"}) =>
          /\ out'.kind = "raised"
          /\ out'.rows = << >>
          /\ pc = "processed" => (df' = df /\ pc' = "processed")
          /\ pc = "new" => (pc' = "exited" /\ logged')]_vars

\* main was run with an unknown group_by: the error was logged, main
\* returned
C9_Witness ==
    /\ pc = "exited"
    /\ ~IsNone(args)
    /\ Get(args).groupby = "url"
    /\ out.kind = "raised"
    /\ logged
    /\ df # << >>

-----------------------------------------------------------------------------
(* Properties of simple_domain *)

DotsOf(s) == {i \in 1..Len(s) : s[i] = "."}

LeastOf(S) == CHOOSE i \in S : \A j \in S : i <= j

\* C4: simple_domain(host) is the host itself when the host has at most one
\* dot (one or two parts, the empty host included), and otherwise the host
\* from just after its first dot on.
C4_SimpleDomain ==
    ~IsNone(simplified) =>
        Get(simplified) =
            IF Cardinality(DotsOf(host)) <= 1 THEN host
            ELSE SubSeq(host, LeastOf(DotsOf(host)) + 1, Len(host))

\* a host of four labels lost exactly its leftmost one
C4_Witness ==
    /\ host = <<"a", ".", "b", ".", "a", ".", "b">>
    /\ simplified = Some(<<"b", ".", "a", ".", "b">>)

=============================================================================
